---------------------------- MODULE Spec2Model ----------------------------
(* A model of the Wiener Linien integration: the fetch/cache/retry client   *)
(* (WienerLinienAPI.get_json), the merge of duplicate monitor blocks, the   *)
(* request construction, the response normalizer (parse_api_response,      *)
(* Monitor/Line/Departure/Vehicle.from_dict), the poll cycle, the sensor    *)
(* entities (LineEntity) and the configuration flow.                        *)
(*                                                                          *)
(* Spec       get_json calls of one client, run to their end (no deadline   *)
(*            of a caller cuts a call short)                                *)
(* SpecMerge  one call, answered with any body of a few monitor blocks      *)
(* SpecQuery  calls of a client configured with any short stops string      *)
(* SpecParse  parse_api_response on any snapshot of a few monitor blocks    *)
(* SpecLine   Line.from_dict on any raw line of a few departures            *)
(* SpecBoard  the entities of one entry: set up, read and updated with a    *)
(*            handful of snapshots                                          *)
(* SpecGroup  the entities set up on any snapshot of a few monitor blocks,  *)
(*            and Monitor.next_departures on its monitors                   *)
(* SpecCycle  poll cycles: get_json under the deadline of async_update_data *)
(* SpecConfig the user form and the options form of the configuration flow  *)
(*            and the setup of the entry                                    *)
(* SpecIdent  the unique ids of the entities set up on any snapshot of a    *)
(*            few monitor blocks, and the reconfiguration of the stops      *)
EXTENDS Integers, Sequences, FiniteSets, TLC

(***************************************************************************)
(* Program constants (WienerLinienAPI.__init__)                            *)
(***************************************************************************)
CacheTimeout == 30
RetryCount == 3
RetryDelay == 1
Timeout == 10

(***************************************************************************)
(* Bounds of the model                                                     *)
(***************************************************************************)
\* the clock value up to which the environment lets time pass between calls
MaxTime == 32
\* the longest time an answered (not timed out) HTTP attempt takes
MaxLatency == 1
\* the longest configured stops string (in characters)
MaxStopsLen == 5
\* the most raw monitor blocks of one response in the merge specification
MaxBlocks == 3
\* the most monitor blocks of one snapshot in the normalizer specification
MaxMonitors == 3
\* the most departure records of one raw line in the line specification
MaxDeps == 3

(***************************************************************************)
(* Raw JSON values.  A key that is absent (or None) is Missing; a falsy    *)
(* rbl (absent, None or 0) is NoRbl; Python's None result is None.         *)
(***************************************************************************)
Missing == -1
NoRbl == 0
None == [none |-> TRUE]
NoVehicle == [absent |-> TRUE]

\* all sequences over S of length at most n
SeqsUpTo(S, n) == UNION {[1..k -> S] : k \in 0..n}

\* the set of elements of a sequence
Range(s) == {s[i] : i \in 1..Len(s)}

\* a raw "vehicle" block
RawVehicle(lineId, linienId, towards, direction, type) ==
    [name |-> "U1", towards |-> towards, direction |-> direction,
     lineId |-> lineId, linienId |-> linienId, type |-> type]

\* a raw entry of departures.departure
RawDeparture(planned, real, vehicle) ==
    [departureTime |-> [timePlanned |-> planned, timeReal |-> real],
     vehicle |-> vehicle]

\* a raw entry of a monitor's "lines"; vehicle is the block the feed gives
\* once per line (metro), NoVehicle when it gives none
RawLine(lineId, linienId, type, vehicle, departures) ==
    [name |-> "U1", towards |-> "X", direction |-> "H", type |-> type,
     lineId |-> lineId, linienId |-> linienId, vehicle |-> vehicle,
     departures |-> departures]

\* a raw locationStop block; complete says that every required field
\* (properties.name/title/municipality/attributes.rbl, geometry.coordinates)
\* is there
RawLocation(rbl, title, complete) ==
    [rbl |-> rbl, title |-> title, complete |-> complete]

\* a raw entry of data.monitors
RawMonitor(location, lines, attributes) ==
    [locationStop |-> location, lines |-> lines, attributes |-> attributes]

\* a response body: shape "nodata" has no "data" key, "nomonitors" has
\* "data" without "monitors", "full" has both
RawResponse(shape, monitors) == [shape |-> shape, monitors |-> monitors]

(***************************************************************************)
(* get_json: merging the monitor blocks of one response (lines 129-151)    *)
(***************************************************************************)
\* processed_monitors is an insertion-ordered dict keyed by rbl: a sequence
\* of merged blocks, each rbl at most once
HasKey(acc, rbl) == \E i \in 1..Len(acc) : acc[i].locationStop.rbl = rbl

\* mutant of MergeStep: a repeated stop's lines replace the earlier ones
MergeStepOverwrite(acc, m) ==
    LET rbl == m.locationStop.rbl IN
    IF rbl = NoRbl \/ m.lines = <<>> THEN acc
    ELSE IF HasKey(acc, rbl)
         THEN [i \in 1..Len(acc) |->
                 IF acc[i].locationStop.rbl = rbl
                 THEN [acc[i] EXCEPT !.lines = m.lines] ELSE acc[i]]
         ELSE Append(acc, [locationStop |-> m.locationStop, lines |-> m.lines,
                           attributes |-> m.attributes])

\* one iteration of "for monitor in monitors"
MergeStep(acc, m) ==
    LET rbl == m.locationStop.rbl IN
    IF rbl = NoRbl THEN acc
    ELSE IF m.lines = <<>> THEN acc
    ELSE IF HasKey(acc, rbl)
         THEN [i \in 1..Len(acc) |->
                 IF acc[i].locationStop.rbl = rbl
                 THEN [acc[i] EXCEPT !.lines = @ \o m.lines] ELSE acc[i]]
         ELSE Append(acc, [locationStop |-> m.locationStop, lines |-> m.lines,
                           attributes |-> m.attributes])

RECURSIVE MergeFrom(_, _, _)
MergeFrom(acc, ms, i) ==
    IF i > Len(ms) THEN acc ELSE MergeFrom(MergeStep(acc, ms[i]), ms, i + 1)

\* list(processed_monitors.values())
MergeMonitors(ms) == MergeFrom(<<>>, ms, 1)

\* mutant of MergeRaises: a body without "data" passes the merge
MergeRaisesNever(resp) == FALSE

\* data["data"]["monitors"] = ... raises KeyError when the body has no "data"
MergeRaises(resp) == resp.shape = "nodata"

\* the body after line 151
Merged(resp) == RawResponse("full", MergeMonitors(resp.monitors))

(***************************************************************************)
(* get_json: the request (lines 118-120)                                   *)
(***************************************************************************)
\* str.split(","): the pieces between the commas, empty pieces included
RECURSIVE SplitFrom(_, _, _)
SplitFrom(s, i, cur) ==
    IF i > Len(s) THEN <<cur>>
    ELSE IF s[i] = "," THEN <<cur>> \o SplitFrom(s, i + 1, <<>>)
    ELSE SplitFrom(s, i + 1, Append(cur, s[i]))

Split(s) == SplitFrom(s, 1, <<>>)

\* the orders in which list(set(...)) may enumerate a set
Orderings(S) ==
    {f \in [1..Cardinality(S) -> S] :
        \A i, j \in 1..Cardinality(S) : f[i] = f[j] => i = j}

\* mutant of StopLists: the split list is used as it is, duplicates kept
StopListsNoSet(s) == {Split(s)}

\* the values list(set(self.stops.split(","))) may take
StopLists(s) == Orderings(Range(Split(s)))

\* the request: one "rbl" parameter per element of stop_list, and the flag
Request(stopList) == [rbl |-> stopList, activateTrafficInfo |-> "stoerunglang"]

(***************************************************************************)
(* get_json: cache, retry policy and fallback                              *)
(***************************************************************************)
\* mutant of CacheFresh: the comparison is inverted
CacheFreshInverted(c, key, t) ==
    key \in DOMAIN c /\ t - c[key].timestamp > CacheTimeout

\* lines 108-110: the cache holds the key and the entry is younger than the
\* freshness window
CacheFresh(c, key, t) ==
    key \in DOMAIN c /\ t - c[key].timestamp < CacheTimeout

\* mutant of CachePut: every write adds an entry of its own
CachePutPerWrite(c, key, data, t) ==
    [k \in DOMAIN c \cup {<<key, t>>} |->
        IF k = <<key, t>> THEN [data |-> data, timestamp |-> t] ELSE c[k]]

\* line 154: self._cache[cache_key] = (data, datetime.now())
CachePut(c, key, data, t) ==
    [k \in DOMAIN c \cup {key} |->
        IF k = key THEN [data |-> data, timestamp |-> t] ELSE c[k]]

\* mutant of BackoffDelay: the exponent is one too large
BackoffDelayLate(r) == RetryDelay * 2 ^ (r + 1)

\* line 159: delay = self._retry_delay * (2 ** retry)
BackoffDelay(r) == RetryDelay * 2 ^ r

\* mutant of Fallback: the cached entry is not consulted
FallbackNever(c, key) == None

\* lines 172-176 and 180-185: the cached data whatever its age, else None
Fallback(c, key) == IF key \in DOMAIN c THEN c[key].data ELSE None


(***************************************************************************)
(* The normalizer (entity.py): each from_dict returns its object or raises *)
(***************************************************************************)
Ok(v) == [ok |-> TRUE, val |-> v]
Raised == [ok |-> FALSE]

\* StopLocation.from_dict (with Coordinates.from_dict): KeyError when a
\* required field is absent
StopLocationFromDict(loc) ==
    IF loc.complete THEN Ok([rbl |-> loc.rbl, title |-> loc.title]) ELSE Raised

\* DepartureTime.from_dict: timePlanned is required, timeReal is optional
DepartureTimeFromDict(dt) ==
    IF dt.timePlanned = Missing THEN Raised
    ELSE Ok([time_planned |-> dt.timePlanned, time_real |-> dt.timeReal])

\* Vehicle.from_dict: the line id is read from "linienId" alone
VehicleFromDict(v) ==
    IF v.linienId = Missing THEN Raised
    ELSE Ok([name |-> v.name, towards |-> v.towards, direction |-> v.direction,
             line_id |-> v.linienId, vehicle_type |-> v.type])

\* Departure.from_dict: data["vehicle"] is required of every departure
DepartureFromDict(d) ==
    LET time == DepartureTimeFromDict(d.departureTime) IN
    IF ~time.ok THEN Raised
    ELSE IF d.vehicle = NoVehicle THEN Raised
    ELSE LET vehicle == VehicleFromDict(d.vehicle) IN
         IF ~vehicle.ok THEN Raised
         ELSE Ok([departure_time |-> time.val, vehicle |-> vehicle.val])

\* Line.from_dict: the line id is read from "lineId" alone; a departure that
\* raises makes the line raise
LineFromDict(l) ==
    IF l.lineId = Missing THEN Raised
    ELSE IF \E i \in 1..Len(l.departures) : ~DepartureFromDict(l.departures[i]).ok
         THEN Raised
         ELSE Ok([name |-> l.name, towards |-> l.towards, direction |-> l.direction,
                  line_id |-> l.lineId, line_type |-> l.type,
                  departures |-> [i \in 1..Len(l.departures) |->
                                     DepartureFromDict(l.departures[i]).val]])

\* Monitor.from_dict: a location or a line that raises makes the monitor
\* raise
MonitorFromDict(m) ==
    LET location == StopLocationFromDict(m.locationStop) IN
    IF ~location.ok THEN Raised
    ELSE IF \E i \in 1..Len(m.lines) : ~LineFromDict(m.lines[i]).ok
         THEN Raised
         ELSE Ok([location |-> location.val,
                  lines |-> [i \in 1..Len(m.lines) |-> LineFromDict(m.lines[i]).val]])

\* parse_api_response, line 190: the body has "data" and "monitors" in it
HasContainer(resp) == resp.shape = "full"

\* mutant of MonitorsAfter: a monitor that raises empties the list
MonitorsAfterAbort(ms, r) == IF r.ok THEN Append(ms, r.val) ELSE <<>>

\* parse_api_response, lines 200-213: the monitor is appended, or the
\* exception logged and the list left as it is
MonitorsAfter(ms, r) == IF r.ok THEN Append(ms, r.val) ELSE ms

(***************************************************************************)
(* State                                                                   *)
(***************************************************************************)
VARIABLES
    stops,      \* WienerLinienAPI.stops: the configured string, as characters
    upstream,   \* the body the upstream has for the next request it answers
    cache,      \* WienerLinienAPI._cache: cache_key -> (data, timestamp)
    now,        \* datetime.now()
    pc,         \* where the get_json call is: idle, request, sleep, done
    retry,      \* the loop variable of "for retry in range(...)"
    request,    \* the url built for this call
    result,     \* what get_json returned
    sent,       \* the requests this call passed to session.get, in order
    delays,     \* the asyncio.sleep delays of this call, in order
    outcomes,   \* how each attempt of this call ended, in order
    body,       \* the body of the answered request, as response.json() gave it
    cache0,     \* the cache when this call began
    now0,       \* the clock when this call began
    lastWrite,  \* what the last call that wrote the cache returned
    fetches,    \* the get_json executions that have begun and not ended
    response,   \* parse_api_response: its argument
    idx,        \* parse_api_response: the index of the next monitor block
    monitors,   \* parse_api_response: the list "monitors" built so far
    ppc,        \* parse_api_response: start, loop, done
    rawLine,    \* Line.from_dict: its argument
    lineResult, \* Line.from_dict: the Line it returned, or that it raised
    entry,      \* the configuration entry (entry.data), None before it exists
    data,       \* coordinator.data: the monitors of the last good cycle
    entities,   \* the LineEntity objects sensor.async_setup_entry added
    cached,     \* LineEntity._cached_departures, one per entity
    lastRead,   \* the last read of an entity's state and attributes
    bpc,        \* the sensor platform of the entry: idle, setup, added
    nextDeps,   \* the last value of Monitor.next_departures
    cycle,      \* how the last poll cycle ended, and the one before it
    api,        \* what async_setup_entry built for the entry, None before
    form,       \* what the configuration flow answered to the last input
    options     \* entry.options, None while the options flow has stored none

clientVars == <<stops, upstream, cache, now, pc, retry, request, result, sent, delays,
                outcomes, body, cache0, now0, lastWrite, fetches>>
parseVars == <<response, idx, monitors, ppc>>
lineVars == <<rawLine, lineResult>>
boardVars == <<entry, data, entities, cached, lastRead, bpc, nextDeps>>
hostVars == <<cycle, api, form, options>>
restVars == <<boardVars, hostVars>>
vars == <<clientVars, parseVars, lineVars, restVars>>

\* what no step of the sensor platform changes
offBoardVars == <<clientVars, parseVars, lineVars, hostVars>>

\* what no step of get_json changes
fixedVars == <<parseVars, lineVars, stops, restVars>>

(***************************************************************************)
(* Inputs of the client specification                                      *)
(***************************************************************************)
VehicleTram == RawVehicle(Missing, 7, "X", "H", "ptTram")
LineTram ==
    RawLine(7, Missing, "ptTram", NoVehicle,
            <<RawDeparture(100, Missing, VehicleTram)>>)
LineBus ==
    RawLine(8, Missing, "ptBusCity", NoVehicle,
            <<RawDeparture(160, 170, RawVehicle(Missing, 8, "Y", "R", "ptBusCity"))>>)

\* the bodies the upstream may have for an answered request
ClientResponses ==
    { RawResponse("full", <<>>),
      RawResponse("full", <<RawMonitor(RawLocation(1, "A", TRUE), <<LineTram>>, "A")>>),
      RawResponse("full", <<RawMonitor(RawLocation(1, "A", TRUE), <<LineTram>>, "A"),
                            RawMonitor(RawLocation(1, "B", TRUE), <<LineBus>>, "B")>>),
      RawResponse("nodata", <<>>) }

\* the configured strings of the client specification: "1,2,1"
ClientStops == { <<"1", ",", "2", ",", "1">> }

EmptyCache == <<>>

InitClient ==
    /\ cache = EmptyCache
    /\ now = 0
    /\ pc = "idle"
    /\ retry = 0
    /\ request = None
    /\ result = None
    /\ sent = <<>>
    /\ delays = <<>>
    /\ outcomes = <<>>
    /\ body = None
    /\ cache0 = EmptyCache
    /\ now0 = 0
    /\ lastWrite = None
    /\ fetches = 0

InitParseIdle ==
    /\ response = RawResponse("full", <<>>)
    /\ idx = 0
    /\ monitors = <<>>
    /\ ppc = "idle"

InitLineIdle ==
    /\ rawLine = LineTram
    /\ lineResult = None

InitBoardIdle ==
    /\ entry = None
    /\ data = <<>>
    /\ entities = <<>>
    /\ cached = <<>>
    /\ lastRead = None
    /\ bpc = "idle"
    /\ nextDeps = None

\* no poll cycle has failed
NoCycle == [failed |-> FALSE, cut |-> FALSE, prevFailed |-> FALSE]

InitHostIdle ==
    /\ cycle = NoCycle
    /\ api = None
    /\ form = None
    /\ options = None

InitRestIdle == InitBoardIdle /\ InitHostIdle

(***************************************************************************)
(* get_json, step by step                                                  *)
(***************************************************************************)
\* get_json is over once it has returned (lines 156, 163, 175 and 185): n
\* executions were running before the step that left the call at p
FetchesAfter(n, p) == IF p = "done" THEN n - 1 ELSE n

BeginCall ==
    /\ sent' = <<>>
    /\ delays' = <<>>
    /\ outcomes' = <<>>
    /\ body' = None
    /\ cache0' = cache
    /\ now0' = now

\* lines 107-112: a fresh cache entry is returned without a request
GetJsonHit ==
    /\ pc = "idle"
    /\ now <= MaxTime
    /\ CacheFresh(cache, stops, now)
    /\ result' = cache[stops].data
    /\ pc' = "done"
    /\ BeginCall
    /\ UNCHANGED <<fixedVars, upstream, cache, now, retry, request, lastWrite,
                   fetches>>

\* lines 113-122: no entry or an expired one; the url is built and the
\* retry loop entered
GetJsonMiss ==
    /\ pc = "idle"
    /\ now <= MaxTime
    /\ ~CacheFresh(cache, stops, now)
    /\ \E stopList \in StopLists(stops) : request' = Request(stopList)
    /\ retry' = 0
    /\ pc' = "request"
    /\ fetches' = fetches + 1
    /\ BeginCall
    /\ UNCHANGED <<fixedVars, upstream, cache, now, result, lastWrite>>

\* lines 124-156: the request is answered in time with a 2xx status and a
\* body that merges; the merged body is cached and returned
AttemptSuccess(resp, d) ==
    /\ pc = "request"
    /\ ~MergeRaises(resp)
    /\ sent' = Append(sent, request)
    /\ outcomes' = Append(outcomes, "ok")
    /\ body' = resp
    /\ now' = now + d
    /\ cache' = CachePut(cache, stops, Merged(resp), now + d)
    /\ result' = Merged(resp)
    /\ lastWrite' = Merged(resp)
    /\ pc' = "done"
    /\ fetches' = FetchesAfter(fetches, "done")
    /\ UNCHANGED <<fixedVars, upstream, retry, request, delays, cache0, now0>>

\* mutant of HasNextAttempt: the loop runs once more
HasNextAttemptExtra(r) == r + 1 < RetryCount + 1

\* line 122: range(self._retry_count) has an iteration after r
HasNextAttempt(r) == r + 1 < RetryCount

\* mutant of SleepsAfter: the sleep follows every timeout
SleepsAfterAlways(r) == TRUE

\* line 166: if retry < self._retry_count - 1
SleepsAfter(r) == r < RetryCount - 1

\* lines 158-168 (and 185): the attempt runs into the timeout
AttemptTimeout ==
    /\ pc = "request"
    /\ sent' = Append(sent, request)
    /\ outcomes' = Append(outcomes, "timeout")
    /\ now' = now + Timeout
    /\ IF SleepsAfter(retry)
       THEN /\ pc' = "sleep"
            /\ UNCHANGED <<retry, result>>
       ELSE IF HasNextAttempt(retry)
            THEN /\ pc' = "request"
                 /\ retry' = retry + 1
                 /\ UNCHANGED result
            ELSE /\ pc' = "done"
                 /\ result' = None
                 /\ UNCHANGED retry
    /\ fetches' = FetchesAfter(fetches, pc')
    /\ UNCHANGED <<fixedVars, upstream, cache, request, delays, body, cache0,
                   now0, lastWrite>>

\* line 167 and the loop's next iteration: await asyncio.sleep(delay)
Sleep ==
    /\ pc = "sleep"
    /\ delays' = Append(delays, BackoffDelay(retry))
    /\ now' = now + BackoffDelay(retry)
    /\ IF HasNextAttempt(retry)
       THEN /\ pc' = "request"
            /\ retry' = retry + 1
            /\ UNCHANGED result
       ELSE /\ pc' = "done"
            /\ result' = None
            /\ UNCHANGED retry
    /\ fetches' = FetchesAfter(fetches, pc')
    /\ UNCHANGED <<fixedVars, upstream, cache, request, sent, outcomes, body,
                   cache0, now0, lastWrite>>

\* mutant of AfterClientError: the loop goes on to the next attempt
AfterClientErrorRetry(r) == IF HasNextAttempt(r) THEN "request" ELSE "done"

\* lines 169-176: return or break, whichever, ends the loop
AfterClientError(r) == "done"

\* lines 169-176 (and 185): aiohttp.ClientError, a non-2xx status included
AttemptClientError(d) ==
    /\ pc = "request"
    /\ sent' = Append(sent, request)
    /\ outcomes' = Append(outcomes, "client_error")
    /\ now' = now + d
    /\ pc' = AfterClientError(retry)
    /\ fetches' = FetchesAfter(fetches, AfterClientError(retry))
    /\ IF AfterClientError(retry) = "done"
       THEN result' = Fallback(cache, stops) /\ UNCHANGED retry
       ELSE retry' = retry + 1 /\ UNCHANGED result
    /\ UNCHANGED <<fixedVars, upstream, cache, request, delays, body, cache0,
                   now0, lastWrite>>

\* lines 178-185: any other exception of the operation, here the KeyError
\* of line 151 on a body without "data"
AttemptOtherError(resp, d) ==
    /\ pc = "request"
    /\ MergeRaises(resp)
    /\ sent' = Append(sent, request)
    /\ outcomes' = Append(outcomes, "error")
    /\ body' = resp
    /\ now' = now + d
    /\ result' = Fallback(cache, stops)
    /\ pc' = "done"
    /\ fetches' = FetchesAfter(fetches, "done")
    /\ UNCHANGED <<fixedVars, upstream, cache, retry, request, delays, cache0, now0,
                   lastWrite>>

\* the caller takes the result; the next call starts from idle
Return ==
    /\ pc = "done"
    /\ pc' = "idle"
    /\ result' = None
    /\ request' = None
    /\ retry' = 0
    /\ sent' = <<>>
    /\ delays' = <<>>
    /\ outcomes' = <<>>
    /\ body' = None
    /\ cache0' = EmptyCache
    /\ now0' = 0
    /\ UNCHANGED <<fixedVars, upstream, cache, now, lastWrite, fetches>>

\* time passes between two calls
Tick ==
    /\ pc = "idle"
    /\ now < MaxTime
    /\ now' = now + 1
    /\ UNCHANGED <<fixedVars, upstream, cache, pc, retry, request, result,
                   sent, delays, outcomes, body, cache0, now0, lastWrite, fetches>>

\* the upstream's data changes between two calls
UpstreamChange ==
    /\ pc = "idle"
    /\ upstream' \in ClientResponses \ {upstream}
    /\ UNCHANGED <<fixedVars, cache, now, pc, retry, request, result, sent, delays,
                   outcomes, body, cache0, now0, lastWrite, fetches>>

Latencies == 0..MaxLatency

Init ==
    /\ stops \in ClientStops
    /\ upstream \in ClientResponses
    /\ InitClient
    /\ InitParseIdle
    /\ InitLineIdle
    /\ InitRestIdle

Next ==
    \/ GetJsonHit
    \/ GetJsonMiss
    \/ \E d \in Latencies : AttemptSuccess(upstream, d)
    \/ AttemptTimeout
    \/ Sleep
    \/ \E d \in Latencies : AttemptClientError(d)
    \/ \E d \in Latencies : AttemptOtherError(upstream, d)
    \/ Return
    \/ Tick
    \/ UpstreamChange

Spec == Init /\ [][Next]_vars

(***************************************************************************)
(* Properties of the client                                                *)
(***************************************************************************)
\* this call began with an entry for the stop set in the cache
HadEntry == stops \in DOMAIN cache0

\* the age that entry had when this call began
AgeAtCall == now0 - cache0[stops].timestamp

AllTimeouts == \A i \in 1..Len(outcomes) : outcomes[i] = "timeout"

IsFailure(o) == o \in {"client_error", "error"}

\* what a degraded call is to return: the cached snapshot, else no data
CachedOrNone == IF HadEntry THEN cache0[stops].data ELSE None

\* C1: a get_json call that begins while the cache holds an entry for the
\* stop set younger than 30 issues no HTTP request and returns exactly the
\* snapshot that the successful fetch which wrote the entry returned.
C1_CacheFreshness ==
    (pc # "idle" /\ HadEntry /\ AgeAtCall < 30)
        => /\ pc = "done"
           /\ sent = <<>>
           /\ result = cache0[stops].data
           /\ result = lastWrite

\* a call answered from an entry of age 29 that holds a merged monitor
C1_Witness ==
    /\ pc = "done" /\ HadEntry /\ AgeAtCall = 29
    /\ sent = <<>>
    /\ result = lastWrite
    /\ Len(result.monitors) = 1 /\ Len(result.monitors[1].lines) = 2

\* C2: in a get_json call whose attempts all time out there are exactly 3
\* attempts and exactly 2 delays, of 1 and then 2 time units; no delay
\* follows the third attempt and no call ever makes a fourth attempt.
C2_RetryBackoff ==
    /\ Len(sent) <= 3
    /\ AllTimeouts =>
          /\ Len(delays) <= 2
          /\ \A i \in 1..Len(delays) : delays[i] = 2 ^ (i - 1)
          /\ pc = "request" => Len(delays) = Len(outcomes)
          /\ (pc = "done" /\ outcomes # <<>>) =>
                Len(sent) = 3 /\ Len(outcomes) = 3 /\ delays = <<1, 2>>

\* three timeouts, two delays, the call over, 33 time units after it began
C2_Witness ==
    /\ pc = "done"
    /\ outcomes = <<"timeout", "timeout", "timeout">>
    /\ delays = <<1, 2>>
    /\ now = now0 + 33

\* C3: when every attempt of a call times out and the cache holds an entry
\* for the stop set, of any age, get_json returns that cached snapshot; it
\* returns no data only when there is no entry.
C3_TimeoutDegradesToCache ==
    (pc = "done" /\ outcomes = <<"timeout", "timeout", "timeout">>)
        => result = CachedOrNone

\* C4: an attempt that ends in a non-timeout failure (a transport error, a
\* non-2xx status, any other exception) is the call's last attempt, and the
\* call returns the cached snapshot if the cache holds an entry for the
\* stop set, whatever its age, and no data otherwise.
C4_FailureFallback ==
    \A i \in 1..Len(outcomes) :
        IsFailure(outcomes[i]) =>
            /\ i = Len(outcomes)
            /\ Len(sent) = i
            /\ pc = "done"
            /\ result = CachedOrNone

\* a transport error on the retry after a timeout, answered from an entry
\* that had expired
C4_Witness ==
    /\ pc = "done"
    /\ outcomes = <<"timeout", "client_error">>
    /\ HadEntry /\ AgeAtCall >= 30
    /\ result = cache0[stops].data
    /\ result # None

(***************************************************************************)
(* The merge specification: one get_json call against an upstream that     *)
(* answers with any body of up to MaxBlocks monitor blocks                 *)
(***************************************************************************)
LineMetro ==
    RawLine(9, Missing, "ptMetro", RawVehicle(Missing, 9, "Z", "H", "ptMetro"),
            <<RawDeparture(200, Missing, NoVehicle), RawDeparture(500, 510, NoVehicle)>>)

MergeLineLists == { <<>>, <<LineTram>>, <<LineBus, LineMetro>> }

\* blocks without a stop id, with an empty line list, and two locations
\* per stop
MergeLocations ==
    { RawLocation(NoRbl, "A", TRUE), RawLocation(1, "A", TRUE),
      RawLocation(1, "B", TRUE), RawLocation(2, "A", TRUE),
      RawLocation(2, "B", TRUE) }

MergeBlocks ==
    { RawMonitor(location, lines, location.title) :
        location \in MergeLocations, lines \in MergeLineLists }

MergeResponses ==
    { RawResponse("full", ms) : ms \in SeqsUpTo(MergeBlocks, MaxBlocks) }

InitMerge ==
    /\ stops = <<"1">>
    /\ upstream \in MergeResponses
    /\ InitClient
    /\ InitParseIdle
    /\ InitLineIdle
    /\ InitRestIdle

NextMerge ==
    \/ GetJsonMiss
    \/ AttemptSuccess(upstream, 0)

SpecMerge == InitMerge /\ [][NextMerge]_vars

\* the blocks of ms with stop id r, in feed order
BlocksOf(ms, r) ==
    LET HasId(m) == m.locationStop.rbl = r IN SelectSeq(ms, HasId)

RECURSIVE ConcatLines(_)
ConcatLines(ms) ==
    IF ms = <<>> THEN <<>> ELSE Head(ms).lines \o ConcatLines(Tail(ms))

\* the stop ids that occur in ms
StopIds(ms) == {ms[i].locationStop.rbl : i \in 1..Len(ms)} \ {NoRbl}

\* where stop id r first occurs in ms
FirstIndex(ms, r) ==
    CHOOSE i \in 1..Len(ms) :
        /\ ms[i].locationStop.rbl = r
        /\ \A j \in 1..(i - 1) : ms[j].locationStop.rbl # r

\* out is the merge of ms: one block per stop id of ms, with the lines of
\* the stop's blocks concatenated in feed order and the location of the
\* stop's first block, the blocks ordered by first appearance of their stop
IsMergeOf(out, ms) ==
    /\ \A r \in StopIds(ms) :
          Cardinality({i \in 1..Len(out) : out[i].locationStop.rbl = r}) = 1
    /\ \A i \in 1..Len(out) :
          LET r == out[i].locationStop.rbl IN
          /\ r \in StopIds(ms)
          /\ out[i].lines = ConcatLines(BlocksOf(ms, r))
          /\ out[i].locationStop = ms[FirstIndex(ms, r)].locationStop
    /\ \A i, j \in 1..Len(out) :
          i < j => FirstIndex(ms, out[i].locationStop.rbl)
                      < FirstIndex(ms, out[j].locationStop.rbl)

\* the blocks the merge keeps: those with a stop id and a non-empty line list
Kept(ms) ==
    LET Keeps(m) == m.locationStop.rbl # NoRbl /\ m.lines # <<>>
    IN SelectSeq(ms, Keeps)

FetchSucceeded == pc = "done" /\ outcomes # <<>> /\ outcomes[Len(outcomes)] = "ok"

\* C5, as claimed: after a successful fetch the raw blocks that share a stop
\* id are merged into exactly one block per stop id, with the line lists
\* concatenated in feed order and the first-seen block's location, in order
\* of first appearance of the stop ids.
C5_MergeAsClaimed ==
    FetchSucceeded => IsMergeOf(result.monitors, body.monitors)

\* C5, amended: the same, of the raw blocks that carry a stop id and a
\* non-empty line list; the other blocks are dropped.
C5_MergeOfKept ==
    FetchSucceeded => IsMergeOf(result.monitors, Kept(body.monitors))

\* two blocks of stop 1 around a block of stop 2, merged into two blocks
C5_Witness ==
    /\ FetchSucceeded
    /\ Len(body.monitors) = 3
    /\ body.monitors[1].locationStop = RawLocation(1, "A", TRUE)
    /\ body.monitors[2].locationStop = RawLocation(2, "A", TRUE)
    /\ body.monitors[3].locationStop = RawLocation(1, "B", TRUE)
    /\ body.monitors[1].lines = <<LineTram>>
    /\ body.monitors[3].lines = <<LineBus, LineMetro>>
    /\ Len(result.monitors) = 2
    /\ result.monitors[1].lines = <<LineTram, LineBus, LineMetro>>
    /\ result.monitors[1].locationStop.title = "A"

(***************************************************************************)
(* The request specification: get_json calls of a client configured with   *)
(* any stops string of up to MaxStopsLen characters, against an upstream   *)
(* that does not answer                                                    *)
(***************************************************************************)
\* digits, the separator, and the blank a user may type after it
StopChars == {"1", "2", ",", " "}

InitQuery ==
    /\ stops \in SeqsUpTo(StopChars, MaxStopsLen)
    /\ upstream = None
    /\ InitClient
    /\ InitParseIdle
    /\ InitLineIdle
    /\ InitRestIdle

NextQuery ==
    \/ GetJsonMiss
    \/ AttemptTimeout
    \/ Sleep
    \/ AttemptClientError(0)

SpecQuery == InitQuery /\ [][NextQuery]_vars

NoDuplicates(s) == \A i, j \in 1..Len(s) : s[i] = s[j] => i = j

ParseStart ==
    /\ ppc = "start"
    /\ monitors' = <<>>
    /\ IF HasContainer(response)
       THEN idx' = 1 /\ ppc' = "loop"
       ELSE idx' = 0 /\ ppc' = "done"
    /\ UNCHANGED <<clientVars, lineVars, restVars, response>>

\* lines 199-213: one iteration of "for monitor_data in monitors_data"
ParseMonitor ==
    /\ ppc = "loop"
    /\ idx <= Len(response.monitors)
    /\ monitors' = MonitorsAfter(monitors, MonitorFromDict(response.monitors[idx]))
    /\ idx' = idx + 1
    /\ UNCHANGED <<clientVars, lineVars, restVars, response, ppc>>

\* line 215
ParseReturn ==
    /\ ppc = "loop"
    /\ idx > Len(response.monitors)
    /\ ppc' = "done"
    /\ UNCHANGED <<clientVars, lineVars, restVars, response, idx, monitors>>

LineNoId ==
    RawLine(Missing, Missing, "ptTram", NoVehicle,
            <<RawDeparture(100, Missing, VehicleTram)>>)

LineOnlyLinienId ==
    RawLine(Missing, 7, "ptTram", NoVehicle,
            <<RawDeparture(100, Missing, VehicleTram)>>)

ParseLineLists ==
    { <<>>, <<LineTram>>, <<LineTram, LineNoId, LineBus>>, <<LineMetro>>,
      <<LineOnlyLinienId>> }

ParseMonitors ==
    { RawMonitor(location, lines, "A") :
        location \in { RawLocation(1, "A", TRUE), RawLocation(2, "B", TRUE),
                       RawLocation(1, "A", FALSE) },
        lines \in ParseLineLists }

ParseResponses ==
    { RawResponse("full", ms) : ms \in SeqsUpTo(ParseMonitors, MaxMonitors) }
        \cup { RawResponse("nodata", <<>>), RawResponse("nomonitors", <<>>) }

InitParse ==
    /\ stops = <<"1">>
    /\ upstream = None
    /\ InitClient
    /\ InitLineIdle
    /\ InitRestIdle
    /\ response \in ParseResponses
    /\ idx = 0
    /\ monitors = <<>>
    /\ ppc = "start"

NextParse ==
    \/ ParseStart
    \/ ParseMonitor
    \/ ParseReturn

SpecParse == InitParse /\ [][NextParse]_vars

LacksLineId(l) == l.lineId = Missing /\ l.linienId = Missing

\* the lines of ls that carry a line id under one of the two names
LinesWithId(ls) ==
    LET HasId(l) == ~LacksLineId(l) IN SelectSeq(ls, HasId)

\* C7: when a line of a monitor lacks its line id under both field names,
\* normalization fails for that line only: the monitor is still produced
\* and holds all of its other lines in feed order.
C7_LineFaultIsolation ==
    ppc = "done" =>
        \A i \in 1..Len(response.monitors) :
            LET m == response.monitors[i]
                others == LinesWithId(m.lines)
            IN  ( /\ m.locationStop.complete
                  /\ \E j \in 1..Len(m.lines) : LacksLineId(m.lines[j])
                  /\ \A j \in 1..Len(others) : LineFromDict(others[j]).ok )
                => \E k \in 1..Len(monitors) :
                      /\ monitors[k].location.rbl = m.locationStop.rbl
                      /\ monitors[k].lines =
                            [j \in 1..Len(others) |-> LineFromDict(others[j]).val]

\* the indices of the monitor blocks of the snapshot that parse
ParsingIndices ==
    {i \in 1..Len(response.monitors) : MonitorFromDict(response.monitors[i]).ok}

\* C10: a monitor block that fails to parse is skipped alone, and the output
\* holds all the other monitors of the snapshot in snapshot order; a
\* snapshot without the data/monitors container yields the empty sequence.
C10_MonitorFaultIsolation ==
    /\ (ppc = "done" /\ response.shape # "full") => monitors = <<>>
    /\ (ppc = "done" /\ response.shape = "full") =>
          /\ Len(monitors) = Cardinality(ParsingIndices)
          /\ \E f \in [1..Len(monitors) -> ParsingIndices] :
                /\ \A a, b \in 1..Len(monitors) : a < b => f[a] < f[b]
                /\ \A a \in 1..Len(monitors) :
                      LET m == response.monitors[f[a]] IN
                      /\ monitors[a].location.rbl = m.locationStop.rbl
                      /\ monitors[a].location.title = m.locationStop.title
                      /\ Len(monitors[a].lines) = Len(m.lines)

\* a block with an incomplete location between a block of stop 2 and a block
\* of stop 1: the output is stop 2, then stop 1
C10_Witness ==
    /\ ppc = "done"
    /\ Len(response.monitors) = 3
    /\ response.monitors[1].locationStop = RawLocation(2, "B", TRUE)
    /\ ~response.monitors[2].locationStop.complete
    /\ response.monitors[3].locationStop = RawLocation(1, "A", TRUE)
    /\ response.monitors[1].lines = <<LineTram>>
    /\ response.monitors[3].lines = <<LineTram>>
    /\ Len(monitors) = 2
    /\ monitors[1].location.rbl = 2
    /\ monitors[2].location.rbl = 1

(***************************************************************************)
(* The line specification: Line.from_dict on any raw line of up to         *)
(* MaxDeps departure records                                               *)
(***************************************************************************)
VehicleMetro == RawVehicle(Missing, 9, "Z", "H", "ptMetro")

\* the same block with the id under the other field name
VehicleMetroLineId == RawVehicle(9, Missing, "Z", "H", "ptMetro")

LineDepartures ==
    { RawDeparture(200, Missing, v) : v \in {NoVehicle, VehicleMetro, VehicleMetroLineId} }

LineInputs ==
    { RawLine(lineId, linienId, type, vehicle, departures) :
        lineId \in {Missing, 9}, linienId \in {Missing, 9},
        type \in {"ptMetro", "ptTram"}, vehicle \in {NoVehicle, VehicleMetro},
        departures \in SeqsUpTo(LineDepartures, MaxDeps) }

InitLine ==
    /\ stops = <<"1">>
    /\ upstream = None
    /\ InitClient
    /\ InitParseIdle
    /\ InitRestIdle
    /\ rawLine \in LineInputs
    /\ lineResult = None

\* Line.from_dict(data, monitor)
NormalizeLine ==
    /\ lineResult = None
    /\ lineResult' = LineFromDict(rawLine)
    /\ UNCHANGED <<clientVars, parseVars, restVars, rawLine>>

NextLine == NormalizeLine

SpecLine == InitLine /\ [][NextLine]_vars

\* C8: a metro line whose raw record carries one shared vehicle block and N
\* departure-time records without a vehicle of their own normalizes to N
\* Departures, each paired with Vehicle data equal to the shared block.
C8_MetroVehicleBroadcast ==
    ( /\ lineResult # None
      /\ rawLine.type = "ptMetro"
      /\ rawLine.lineId # Missing
      /\ rawLine.vehicle # NoVehicle
      /\ \A i \in 1..Len(rawLine.departures) : rawLine.departures[i].vehicle = NoVehicle )
    => /\ lineResult.ok
       /\ Len(lineResult.val.departures) = Len(rawLine.departures)
       /\ \A i \in 1..Len(rawLine.departures) :
             lineResult.val.departures[i].vehicle = VehicleFromDict(rawLine.vehicle).val

HasEitherId(r) == r.lineId # Missing \/ r.linienId # Missing

\* C9: the line id of a line or vehicle record is taken from whichever of
\* the two field names is present: a line whose own record and whose
\* departures' vehicle records each carry the id under at least one of the
\* two names is normalized successfully.
C9_LineIdResolution ==
    ( /\ lineResult # None
      /\ HasEitherId(rawLine)
      /\ \A i \in 1..Len(rawLine.departures) :
            /\ rawLine.departures[i].vehicle # NoVehicle
            /\ HasEitherId(rawLine.departures[i].vehicle) )
    => lineResult.ok

(***************************************************************************)
(* parse_api_response as one function (__init__.py, lines 187-219)         *)
(***************************************************************************)
RECURSIVE ParseFrom(_, _, _)
ParseFrom(ms, raw, i) ==
    IF i > Len(raw) THEN ms
    ELSE ParseFrom(MonitorsAfter(ms, MonitorFromDict(raw[i])), raw, i + 1)

ParseApiResponse(resp) ==
    IF HasContainer(resp) THEN ParseFrom(<<>>, resp.monitors, 1) ELSE <<>>

(***************************************************************************)
(* The sensor platform (sensor.py)                                         *)
(***************************************************************************)
\* const.py, line 9
DEFAULT_DEPARTURE_LIMIT == 5

\* entry.data.get("departure_limit", DEFAULT_DEPARTURE_LIMIT), line 180
DepartureLimit(e) ==
    IF e.departure_limit = Missing THEN DEFAULT_DEPARTURE_LIMIT
    ELSE e.departure_limit

\* the (monitor, line) pairs in the order of the two outer loops, lines 187-195
RECURSIVE LineRefsFrom(_, _)
LineRefsFrom(ms, i) ==
    IF i > Len(ms) THEN <<>>
    ELSE [j \in 1..Len(ms[i].lines) |-> [monitor |-> ms[i], line |-> ms[i].lines[j]]]
             \o LineRefsFrom(ms, i + 1)

\* mutant of AddDirection: the direction is recorded again
AddDirectionAlways(dirs, dep) ==
    Append(dirs, [direction |-> dep.vehicle.direction, towards |-> dep.vehicle.towards])

\* lines 214-227: direction_data gets the departure's (direction, towards)
\* unless it has it
AddDirection(dirs, dep) ==
    LET d == [direction |-> dep.vehicle.direction, towards |-> dep.vehicle.towards] IN
    IF \E k \in 1..Len(dirs) : dirs[k] = d THEN dirs ELSE Append(dirs, d)

\* lines 214-227, the loop over line.departures
RECURSIVE AddDirections(_, _, _)
AddDirections(dirs, deps, i) ==
    IF i > Len(deps) THEN dirs
    ELSE AddDirections(AddDirection(dirs, deps[i]), deps, i + 1)

\* lines 204-227: line_stop_directions is an insertion-ordered dict keyed by
\* (line.line_id, monitor.location.rbl): a sequence of its items
GroupStep(acc, ref) ==
    LET key == <<ref.line.line_id, ref.monitor.location.rbl>> IN
    IF \E k \in 1..Len(acc) : acc[k].key = key
    THEN LET k == CHOOSE k \in 1..Len(acc) : acc[k].key = key IN
         [acc EXCEPT ![k].direction_data =
                         AddDirections(@, ref.line.departures, 1)]
    ELSE Append(acc, [key |-> key, line |-> ref.line, monitor |-> ref.monitor,
                      direction_data |-> AddDirections(<<>>, ref.line.departures, 1)])

RECURSIVE GroupFrom(_, _, _)
GroupFrom(acc, refs, i) ==
    IF i > Len(refs) THEN acc ELSE GroupFrom(GroupStep(acc, refs[i]), refs, i + 1)

LineStopDirections(ms) == GroupFrom(<<>>, LineRefsFrom(ms, 1), 1)

\* line 232
DirectionText(direction) == IF direction = "H" THEN "Outbound" ELSE "Inbound"

\* LineEntity.__init__, lines 23-45, as called on lines 244-255
LineEntity(line, monitor, direction, towards, limit) ==
    [line |-> line, monitor |-> monitor, direction |-> direction,
     towards |-> towards, direction_text |-> DirectionText(direction),
     departure_limit |-> limit]

\* lines 230-255: one entity per item of direction_data, group after group
RECURSIVE EntitiesFrom(_, _, _)
EntitiesFrom(groups, i, limit) ==
    IF i > Len(groups) THEN <<>>
    ELSE [k \in 1..Len(groups[i].direction_data) |->
             LineEntity(groups[i].line, groups[i].monitor,
                        groups[i].direction_data[k].direction,
                        groups[i].direction_data[k].towards, limit)]
             \o EntitiesFrom(groups, i + 1, limit)

CreateEntities(ms, limit) == EntitiesFrom(LineStopDirections(ms), 1, limit)

\* LineEntity._cached_departures is None (line 34): told from every list of
\* departures
NotCached == <<None>>

\* sorted(items, key=...) (sensor.py lines 71-74, entity.py line 154), with
\* keys[i] the key of items[i]: a stable sort; item i goes to the place that
\* counts the items with a lesser key and those with the same key that come
\* no later
SortedBy(items, keys) ==
    LET n == Len(items)
        Place(i) == Cardinality({j \in 1..n :
                        \/ keys[j] < keys[i]
                        \/ keys[j] = keys[i] /\ j <= i})
    IN [p \in 1..n |-> items[CHOOSE i \in 1..n : Place(i) = p]]

\* lines 66-70: the departures of one line record that run in the entity's
\* direction to its destination
MatchingDepartures(e, line) ==
    LET Match(dep) == /\ dep.vehicle.direction = e.direction
                      /\ dep.vehicle.towards = e.towards
    IN SelectSeq(line.departures, Match)

\* lines 61-83: every monitor of the entity's stop is visited; in it the
\* first line record with the entity's line id sets the cache and ends the
\* inner loop
RECURSIVE ScanMonitors(_, _, _, _)
ScanMonitors(c, e, ms, i) ==
    IF i > Len(ms) THEN c
    ELSE LET lines == ms[i].lines
             hits == {j \in 1..Len(lines) : lines[j].line_id = e.line.line_id}
         IN IF ms[i].location.rbl = e.monitor.location.rbl /\ hits # {}
            THEN LET first == CHOOSE j \in hits : \A h \in hits : j <= h
                     deps == MatchingDepartures(e, lines[first])
                     planned == [k \in 1..Len(deps) |->
                                    deps[k].departure_time.time_planned]
                 IN ScanMonitors(SortedBy(deps, planned), e, ms, i + 1)
            ELSE ScanMonitors(c, e, ms, i + 1)

\* LineEntity._filtered_departures, lines 57-86, with c the cache
FilteredDepartures(c, e, ms) ==
    IF c # NotCached THEN c
    ELSE LET found == ScanMonitors(NotCached, e, ms, 1) IN
         IF found = NotCached THEN <<>> ELSE found

\* next_dep.departure_time.time_real or next_dep.departure_time.time_planned
EffectiveTime(dt) == IF dt.time_real # Missing THEN dt.time_real ELSE dt.time_planned

\* int(x / 60) of a float: the quotient rounded towards zero
MinutesUntil(seconds) ==
    IF seconds >= 0 THEN seconds \div 60 ELSE -((-seconds) \div 60)

\* LineEntity.native_value, lines 93-109, read at clock time t (seconds)
NativeValue(deps, t) ==
    IF deps = <<>> THEN None
    ELSE LET minutes == MinutesUntil(EffectiveTime(deps[1].departure_time) - t) IN
         IF minutes < 0 THEN [text |-> "Departed"]
         ELSE IF minutes = 0 THEN [text |-> "Now"]
         ELSE [text |-> "Arriving in", minutes |-> minutes]

\* strftime(TIME_STR_FORMAT): hours and minutes of a time given in seconds
HoursMinutes(t) == <<(t \div 3600) % 24, (t \div 60) % 60>>

\* mutant of Limited: the whole list
LimitedNot(deps, limit) == deps

\* self._filtered_departures[:self.departure_limit], line 154
Limited(deps, limit) ==
    IF limit >= 0 THEN SubSeq(deps, 1, IF limit < Len(deps) THEN limit ELSE Len(deps))
    ELSE SubSeq(deps, 1, IF Len(deps) + limit > 0 THEN Len(deps) + limit ELSE 0)

\* LineEntity.extra_state_attributes, lines 140-171: attrs["departures"]
DeparturesAttribute(e, deps) ==
    LET shown == Limited(deps, e.departure_limit) IN
    [i \in 1..Len(shown) |->
        [location |-> e.monitor.location.title,
         line_name |-> e.line.name,
         towards |-> shown[i].vehicle.towards,
         planned_time |-> HoursMinutes(shown[i].departure_time.time_planned),
         real_time |-> IF shown[i].departure_time.time_real = Missing THEN None
                       ELSE HoursMinutes(shown[i].departure_time.time_real)]]

\* mutant of HandlerCache: the cache is kept
HandlerCacheKept(c) == c

\* LineEntity._handle_coordinator_update, line 127
HandlerCache(c) == NotCached

(***************************************************************************)
(* The entities of one configuration entry                                 *)
(***************************************************************************)
\* sensor.async_setup_entry, lines 173-258
SetupEntities ==
    /\ bpc = "setup"
    /\ entities' = CreateEntities(data, DepartureLimit(entry))
    /\ cached' = [i \in 1..Len(entities') |-> NotCached]
    /\ bpc' = "added"
    /\ UNCHANGED <<offBoardVars, entry, data, lastRead, nextDeps>>

\* the state of entity i is read at clock time t: native_value (lines 93-109)
\* and extra_state_attributes (lines 140-171), both through
\* _filtered_departures, which fills the cache
ReadEntity(i, t) ==
    /\ bpc = "added"
    /\ i \in 1..Len(entities)
    /\ LET deps == FilteredDepartures(cached[i], entities[i], data) IN
       /\ cached' = [cached EXCEPT ![i] = deps]
       /\ lastRead' = [entity |-> i, at |-> t, filtered |-> deps,
                       native_value |-> NativeValue(deps, t),
                       departures |-> DeparturesAttribute(entities[i], deps)]
    /\ UNCHANGED <<offBoardVars, entry, data, entities, bpc, nextDeps>>

\* the coordinator has new data and calls every listener:
\* _handle_coordinator_update (lines 120-128) clears the entity's cache and
\* writes its state, which reads it from the new data; the states read
\* before are replaced
CoordinatorUpdate(new) ==
    /\ bpc = "added"
    /\ data' = new
    /\ cached' = [i \in 1..Len(entities) |->
                     FilteredDepartures(HandlerCache(cached[i]), entities[i], new)]
    /\ lastRead' = None
    /\ UNCHANGED <<offBoardVars, entry, entities, bpc, nextDeps>>

(***************************************************************************)
(* Inputs of the entity specification                                      *)
(***************************************************************************)
\* the largest configured departure limit of the entity specification
MaxBoardLimit == 2

\* a raw departure of a tram in the given direction to the given destination
TramDeparture(planned, real, direction, towards) ==
    RawDeparture(planned, real, RawVehicle(Missing, 7, towards, direction, "ptTram"))

\* a raw line record with the given line id and departures
TramLine(id, departures) == RawLine(id, Missing, "ptTram", NoVehicle, departures)

BoardStop(rbl, lines) == RawMonitor(RawLocation(rbl, "A", TRUE), lines, "A")

\* the bodies whose merged and normalized monitors the coordinator holds.
\* out: line 7 outbound, three departures, not in the order of their times;
\* inb: a second line record with line id 7, inbound; both: line 8 with both
\* directions in one line record
BoardResponses ==
    LET out == TramLine(7, <<TramDeparture(180, Missing, "H", "X"),
                             TramDeparture(120, 181, "H", "X"),
                             TramDeparture(240, Missing, "H", "X")>>)
        inb == TramLine(7, <<TramDeparture(120, Missing, "R", "Y")>>)
        both == TramLine(8, <<TramDeparture(120, Missing, "H", "X"),
                              TramDeparture(300, Missing, "R", "Y")>>)
    IN { RawResponse("full", <<BoardStop(1, <<out>>)>>),
         RawResponse("full", <<BoardStop(1, <<out, inb>>)>>),
         RawResponse("full", <<BoardStop(1, <<inb>>), BoardStop(1, <<out>>)>>),
         RawResponse("full", <<BoardStop(1, <<both>>), BoardStop(2, <<out>>)>>),
         RawResponse("full", <<BoardStop(1, <<inb>>)>>),
         RawResponse("full", <<BoardStop(1, <<TramLine(7, <<>>)>>)>>) }

\* coordinator.data after a good cycle: get_json's merge, then the normalizer
Snapshot(resp) == ParseApiResponse(Merged(resp))

BoardSnapshots == { Snapshot(resp) : resp \in BoardResponses }

\* the clock times (seconds) at which states are read
Instants == {59, 60, 119, 120, 121, 180, 181, 241}

\* entry.data of an entry with departure limit l
EntryData(l) == [stops |-> <<"1">>, departure_limit |-> l, scan_interval |-> 30]

InitBoard ==
    /\ stops = <<"1">>
    /\ upstream = None
    /\ InitClient
    /\ InitParseIdle
    /\ InitLineIdle
    /\ InitHostIdle
    /\ entry \in { EntryData(l) : l \in 1..MaxBoardLimit }
    /\ data \in BoardSnapshots
    /\ entities = <<>>
    /\ cached = <<>>
    /\ lastRead = None
    /\ bpc = "setup"
    /\ nextDeps = None

NextBoard ==
    \/ SetupEntities
    \/ \E i \in 1..Len(entities), t \in Instants : ReadEntity(i, t)
    \/ \E new \in BoardSnapshots : CoordinatorUpdate(new)

SpecBoard == InitBoard /\ [][NextBoard]_vars

(***************************************************************************)
(* Properties of the entities                                              *)
(***************************************************************************)
\* the entity of the last read
ReadBoard == entities[lastRead.entity]

\* C11: the live value of a read is "Departed", "Now" or "Arriving in N min"
\* as minutes = floor((effective time - now) / 60 s) is negative, zero or
\* positive, for the first departure of the filtered list, and no value when
\* the list is empty; a departure one second ago reads "Departed".
C11_CountdownByFloor ==
    lastRead # None =>
        IF lastRead.filtered = <<>> THEN lastRead.native_value = None
        ELSE LET effective == EffectiveTime(lastRead.filtered[1].departure_time)
                 minutes == (effective - lastRead.at) \div 60
             IN lastRead.native_value =
                    IF minutes < 0 THEN [text |-> "Departed"]
                    ELSE IF minutes = 0 THEN [text |-> "Now"]
                    ELSE [text |-> "Arriving in", minutes |-> minutes]

\* the departures, in feed order, of the line records refs[i..] that run in
\* e's direction to e's destination
RECURSIVE DeparturesOfRefs(_, _, _)
DeparturesOfRefs(e, refs, i) ==
    IF i > Len(refs) THEN <<>>
    ELSE MatchingDepartures(e, refs[i].line) \o DeparturesOfRefs(e, refs, i + 1)

\* all departures of snapshot ms whose stop id, line id, direction and
\* destination are those of entity e
AllMatching(e, ms) ==
    LET OfKey(r) == /\ r.monitor.location.rbl = e.monitor.location.rbl
                    /\ r.line.line_id = e.line.line_id
    IN DeparturesOfRefs(e, SelectSeq(LineRefsFrom(ms, 1), OfKey), 1)

\* s is t in some order
IsPermutationOf(s, t) ==
    /\ Len(s) = Len(t)
    /\ \E p \in Permutations(1..Len(t)) : \A i \in 1..Len(t) : s[i] = t[p[i]]

SortedAscending(deps) ==
    \A i \in 1..Len(deps) - 1 :
        deps[i].departure_time.time_planned <= deps[i + 1].departure_time.time_planned

\* C12: the filtered list an entity reads is all departures of the current
\* snapshot that match its stop id, line id, direction and destination, also
\* when several line records of the stop have its line id, in ascending order
\* of planned time.
C12_FilterComplete ==
    lastRead # None =>
        /\ IsPermutationOf(lastRead.filtered, AllMatching(ReadBoard, data))
        /\ SortedAscending(lastRead.filtered)

(***************************************************************************)
(* Setting the entities up on any snapshot of a few monitor blocks, and    *)
(* Monitor.next_departures on its monitors                                 *)
(***************************************************************************)
\* entity.py lines 148-153: the first departure of the line's list, as
\* (f"{line.name} to {line.towards}", time_real or time_planned)
NextOfLine(line) ==
    [label |-> <<line.name, line.towards>>,
     time |-> EffectiveTime(line.departures[1].departure_time)]

\* Monitor.next_departures, entity.py lines 143-154
NextDepartures(m) ==
    LET HasDepartures(line) == line.departures # <<>>
        withDeps == SelectSeq(m.lines, HasDepartures)
        items == [i \in 1..Len(withDeps) |-> NextOfLine(withDeps[i])]
    IN SortedBy(items, [i \in 1..Len(items) |-> items[i].time])

\* monitor i of coordinator.data is asked for its next departures
ReadNextDepartures(i) ==
    /\ nextDeps = None
    /\ i \in 1..Len(data)
    /\ nextDeps' = [monitor |-> i, value |-> NextDepartures(data[i])]
    /\ UNCHANGED <<offBoardVars, entry, data, entities, cached, lastRead, bpc>>

\* the largest number of monitor blocks in a body of this specification
MaxGroupBlocks == 2

\* the snapshots of up to MaxGroupBlocks raw blocks of one line record each.
\* The departure lists of a line: none, one of each (direction, destination),
\* the same one twice with the later time first, two different
GroupSnapshots ==
    LET lists == { <<>>,
                   <<TramDeparture(120, Missing, "H", "X")>>,
                   <<TramDeparture(120, Missing, "R", "Y")>>,
                   <<TramDeparture(120, Missing, "R", "X")>>,
                   <<TramDeparture(180, Missing, "H", "X"),
                     TramDeparture(120, 130, "H", "X")>>,
                   <<TramDeparture(120, 200, "H", "X"),
                     TramDeparture(150, Missing, "R", "Y")>> }
        blocks == { BoardStop(rbl, <<TramLine(id, deps)>>) :
                      rbl \in {1, 2}, id \in {7, 8}, deps \in lists }
    IN { Snapshot(RawResponse("full", bs)) :
           bs \in SeqsUpTo(blocks, MaxGroupBlocks) \ {<<>>} }

InitGroup ==
    /\ stops = <<"1">>
    /\ upstream = None
    /\ InitClient
    /\ InitParseIdle
    /\ InitLineIdle
    /\ InitHostIdle
    /\ entry = EntryData(Missing)
    /\ data \in GroupSnapshots
    /\ entities = <<>>
    /\ cached = <<>>
    /\ lastRead = None
    /\ bpc = "setup"
    /\ nextDeps = None

NextGroup ==
    \/ SetupEntities
    \/ \E i \in 1..Len(data) : ReadNextDepartures(i)

SpecGroup == InitGroup /\ [][NextGroup]_vars

\* what identifies an entity: line id, stop id, direction, destination
KeyOf(e) == <<e.line.line_id, e.monitor.location.rbl, e.direction, e.towards>>

\* the (line id, stop id, direction, destination) of the monitor/line/
\* departure triples of snapshot ms
KeysIn(ms) ==
    UNION { UNION { { <<ms[i].lines[j].line_id, ms[i].location.rbl,
                        ms[i].lines[j].departures[k].vehicle.direction,
                        ms[i].lines[j].departures[k].vehicle.towards>> :
                      k \in 1..Len(ms[i].lines[j].departures) } :
                    j \in 1..Len(ms[i].lines) } :
            i \in 1..Len(ms) }

\* C13: the entities set up on a snapshot are in one-to-one correspondence
\* with the distinct (line id, stop id, direction, destination) tuples of its
\* departures: every tuple has an entity, every entity has a tuple that
\* occurs, and no two entities have the same tuple.
C13_OneBoardPerTuple ==
    bpc = "added" =>
        /\ { KeyOf(entities[i]) : i \in 1..Len(entities) } = KeysIn(data)
        /\ \A i, j \in 1..Len(entities) :
              KeyOf(entities[i]) = KeyOf(entities[j]) => i = j

\* C13 witness: a tuple occurs in several raw records (two departures, in
\* one line record or in two) and two different tuples occur
C13_Witness ==
    /\ bpc = "added"
    /\ Len(entities) >= 2
    /\ \E i \in 1..Len(entities) :
          Len(AllMatching(entities[i], data)) >= 2

\* the least effective time among the departures of a line
NearestTime(line) ==
    LET times == { EffectiveTime(line.departures[k].departure_time) :
                     k \in 1..Len(line.departures) }
    IN CHOOSE t \in times : \A u \in times : t <= u

\* C14: Monitor.next_departures reports, for every line of the monitor with
\* at least one departure, the nearest of the line's departures: the minimum
\* of (real time if present, else planned time) over all of them, whatever
\* their order in the feed.
C14_NearestPerLine ==
    nextDeps # None =>
        LET HasDepartures(line) == line.departures # <<>>
            withDeps == SelectSeq(data[nextDeps.monitor].lines, HasDepartures)
        IN IsPermutationOf(nextDeps.value,
                           [i \in 1..Len(withDeps) |->
                               [label |-> <<withDeps[i].name, withDeps[i].towards>>,
                                time |-> NearestTime(withDeps[i])]])

(***************************************************************************)
(* The poll cycle: async_update_data (__init__.py, lines 30-56) runs       *)
(* get_json and parse_api_response under its own deadline                  *)
(***************************************************************************)
\* async_timeout.timeout(10), line 33
CycleTimeout == 10

\* when the deadline of the running cycle expires: the cycle and its
\* get_json call begin at the same clock time
CycleDeadlineAt == now0 + CycleTimeout

\* the deadline's timer has not fired
DeadlinePending == now < CycleDeadlineAt

\* an await of d units ends before the deadline's timer fires
EndsBeforeDeadline(d) == ~DeadlinePending \/ now + d < CycleDeadlineAt

\* an await of d units ends with a timer of its own that is due at the
\* instant of the deadline's timer
RacesDeadline(d) == DeadlinePending /\ now + d = CycleDeadlineAt

\* the longest the await at pc can last
AwaitLength == IF pc = "sleep" THEN BackoffDelay(retry) ELSE Timeout

\* mutant of Cancelled: the cancelled execution runs on, detached
CancelledDetached(n) == n

\* lines 33-34: get_json is awaited under the deadline, so the deadline's
\* cancellation is delivered into it; no handler of get_json catches it
\* (lines 158, 169 and 178 name TimeoutError, ClientError and Exception) and
\* the execution ends
Cancelled(n) == n - 1

\* mutant of UpdateData: an empty list of monitors is returned
UpdateDataNoCheck(res) ==
    IF res = None THEN Raised ELSE Ok(ParseApiResponse(res))

\* lines 34-54: what async_update_data makes of get_json's result res: the
\* monitors, or UpdateFailed
UpdateData(res) ==
    IF res = None THEN Raised
    ELSE LET ms == ParseApiResponse(res) IN
         IF ms = <<>> THEN Raised ELSE Ok(ms)

\* lines 34-56, once get_json has returned; the coordinator keeps its data
\* when the cycle fails
CycleFinish ==
    /\ pc = "done"
    /\ pc' = "finished"
    /\ LET r == UpdateData(result) IN
       /\ data' = IF r.ok THEN r.val ELSE data
       /\ cycle' = [failed |-> ~r.ok, cut |-> FALSE, prevFailed |-> cycle.failed]
    /\ UNCHANGED <<parseVars, lineVars, stops, upstream, cache, now, retry, request,
                   result, sent, delays, outcomes, body, cache0, now0, lastWrite,
                   fetches, api, form, options, entry, entities, cached, lastRead,
                   bpc, nextDeps>>

\* line 33: the deadline's timer fires while get_json awaits the answer of a
\* request or a backoff sleep; the call is cancelled where it waits (the
\* CancelledError passes every handler of get_json), the deadline turns it
\* into a TimeoutError and line 56 into UpdateFailed
CycleDeadline ==
    /\ pc \in {"request", "sleep"}
    /\ DeadlinePending
    /\ now + AwaitLength >= CycleDeadlineAt
    /\ now' = CycleDeadlineAt
    /\ pc' = "finished"
    /\ sent' = IF pc = "request" THEN Append(sent, request) ELSE sent
    /\ outcomes' = Append(outcomes, "cancelled")
    /\ result' = None
    /\ cycle' = [failed |-> TRUE, cut |-> TRUE, prevFailed |-> cycle.failed]
    /\ fetches' = Cancelled(fetches)
    /\ UNCHANGED <<parseVars, lineVars, stops, upstream, cache, retry, request,
                   delays, body, cache0, now0, lastWrite, boardVars, api, form,
                   options>>

\* the coordinator has taken the cycle's outcome; the next cycle starts from
\* idle
CycleReturn ==
    /\ pc = "finished"
    /\ pc' = "idle"
    /\ result' = None
    /\ request' = None
    /\ retry' = 0
    /\ sent' = <<>>
    /\ delays' = <<>>
    /\ outcomes' = <<>>
    /\ body' = None
    /\ cache0' = EmptyCache
    /\ now0' = 0
    /\ UNCHANGED <<fixedVars, upstream, cache, now, lastWrite, fetches>>

\* the client's bodies, and one whose only monitor block the normalizer
\* rejects
CycleResponses ==
    ClientResponses
        \cup { RawResponse("full",
                   <<RawMonitor(RawLocation(1, "A", TRUE), <<LineNoId>>, "A")>>) }

\* the upstream's data changes between two cycles
CycleUpstreamChange ==
    /\ pc = "idle"
    /\ upstream' \in CycleResponses \ {upstream}
    /\ UNCHANGED <<fixedVars, cache, now, pc, retry, request, result, sent, delays,
                   outcomes, body, cache0, now0, lastWrite, fetches>>

InitCycle ==
    /\ stops \in ClientStops
    /\ upstream \in CycleResponses
    /\ InitClient
    /\ InitParseIdle
    /\ InitLineIdle
    /\ InitRestIdle

\* the steps of get_json are those of the client; an await that would end
\* after the deadline's timer has fired does not end.  The timer of a request
\* that begins with the cycle is due at the instant of the deadline's timer:
\* either one may be served first
NextCycle ==
    \/ GetJsonHit
    \/ GetJsonMiss
    \/ \E d \in Latencies : EndsBeforeDeadline(d) /\ AttemptSuccess(upstream, d)
    \/ (EndsBeforeDeadline(Timeout) \/ RacesDeadline(Timeout)) /\ AttemptTimeout
    \/ EndsBeforeDeadline(BackoffDelay(retry)) /\ Sleep
    \/ \E d \in Latencies : EndsBeforeDeadline(d) /\ AttemptClientError(d)
    \/ \E d \in Latencies : EndsBeforeDeadline(d) /\ AttemptOtherError(upstream, d)
    \/ CycleDeadline
    \/ CycleFinish
    \/ CycleReturn
    \/ Tick
    \/ CycleUpstreamChange

SpecCycle == InitCycle /\ [][NextCycle]_vars

(***************************************************************************)
(* Properties of the poll cycle                                            *)
(***************************************************************************)
\* the monitors of the blocks of snapshot res that the normalizer accepts
ParseableMonitors(res) ==
    LET Accepted(block) == MonitorFromDict(block).ok
        blocks == SelectSeq(res.monitors, Accepted)
    IN [i \in 1..Len(blocks) |-> MonitorFromDict(blocks[i]).val]

\* C15: a poll cycle reports failure when the fetch yields no data or the
\* normalizer yields no monitor; when the fetch yields a snapshot (fresh,
\* cached or fallback) with at least one monitor the normalizer accepts, the
\* cycle does not fail and returns the accepted monitors.
C15_CycleFailurePropagation ==
    pc = "finished" =>
        IF result = None THEN cycle.failed
        ELSE IF ParseableMonitors(result) = <<>> THEN cycle.failed
        ELSE ~cycle.failed /\ data = ParseableMonitors(result)

\* C15 witness: a cycle succeeds on the cached snapshot that get_json fell
\* back to after a client error
C15_Witness ==
    /\ pc = "finished"
    /\ ~cycle.failed
    /\ outcomes # <<>>
    /\ outcomes[Len(outcomes)] = "client_error"
    /\ data # <<>>

(***************************************************************************)
(* Properties of the entities' attributes and cache                        *)
(***************************************************************************)
\* C16: the departures attribute of a read is the prefix of length
\* min(limit, n) of the entity's filtered and sorted list of length n: it has
\* at most the configured departure limit entries, in the list's order.
C16_DetailListBound ==
    lastRead # None =>
        LET limit == entry.departure_limit
            n == Len(lastRead.filtered)
            shown == lastRead.departures
        IN /\ Len(shown) = IF limit < n THEN limit ELSE n
           /\ Len(shown) <= limit
           /\ \A i \in 1..Len(shown) :
                 LET dep == lastRead.filtered[i] IN
                 /\ shown[i].towards = dep.vehicle.towards
                 /\ shown[i].planned_time =
                        HoursMinutes(dep.departure_time.time_planned)
                 /\ shown[i].real_time =
                        IF dep.departure_time.time_real = Missing THEN None
                        ELSE HoursMinutes(dep.departure_time.time_real)

\* C16 witness: a read of an entity with more filtered departures than the
\* limit
C16_Witness ==
    /\ lastRead # None
    /\ Len(lastRead.filtered) > entry.departure_limit
    /\ Len(lastRead.departures) = entry.departure_limit

(***************************************************************************)
(* The configuration flow (config_flow.py) and async_setup_entry           *)
(***************************************************************************)
\* const.py, lines 10-12
DEFAULT_SCAN_INTERVAL == 30
MIN_SCAN_INTERVAL == 10
MAX_SCAN_INTERVAL == 300

\* vol.Range(min=1, max=10), config_flow.py line 51
MIN_DEPARTURE_LIMIT == 1
MAX_DEPARTURE_LIMIT == 10

\* vol.Range(min=lo, max=hi)
InRange(v, lo, hi) == lo <= v /\ v <= hi

\* mutant of SchemaAccepts: the form takes every input
SchemaAcceptsAll(input) == TRUE

\* the data_schema of the user form, lines 44-60: an optional key may be
\* absent; a value given must be in its range
SchemaAccepts(input) ==
    /\ \/ input.departure_limit = Missing
       \/ InRange(input.departure_limit, MIN_DEPARTURE_LIMIT, MAX_DEPARTURE_LIMIT)
    /\ \/ input.scan_interval = Missing
       \/ InRange(input.scan_interval, MIN_SCAN_INTERVAL, MAX_SCAN_INTERVAL)

\* the data_schema's result: vol.Optional(..., default=...) fills what is
\* absent
SchemaValue(input) ==
    [stops |-> input.stops,
     departure_limit |-> IF input.departure_limit = Missing
                         THEN DEFAULT_DEPARTURE_LIMIT ELSE input.departure_limit,
     scan_interval |-> IF input.scan_interval = Missing
                       THEN DEFAULT_SCAN_INTERVAL ELSE input.scan_interval]

\* async_step_user, lines 33-40: the data of the entry created
EntryOf(user_input) ==
    [stops |-> user_input.stops,
     departure_limit |-> DepartureLimit(user_input),
     scan_interval |-> IF user_input.scan_interval = Missing
                       THEN DEFAULT_SCAN_INTERVAL ELSE user_input.scan_interval]

\* the user form is submitted: the flow manager passes the input through the
\* form's data_schema and either shows the form again with the error or
\* calls async_step_user with the schema's result (lines 27-62)
SubmitUser(input) ==
    /\ entry = None
    /\ IF SchemaAccepts(input)
       THEN /\ entry' = EntryOf(SchemaValue(input))
            /\ form' = [type |-> "create_entry", input |-> input]
       ELSE /\ entry' = entry
            /\ form' = [type |-> "form", input |-> input]
    /\ UNCHANGED <<clientVars, parseVars, lineVars, cycle, api, options, data,
                   entities, cached, lastRead, bpc, nextDeps>>

\* what a setup of the entry with data e builds: the client's stops (line
\* 24), the coordinator's interval (line 27) and the departure limit of the
\* sensor platform (sensor.py line 180)
SetupOf(e) ==
    [stops |-> e.stops,
     update_interval |-> IF e.scan_interval = Missing
                         THEN DEFAULT_SCAN_INTERVAL ELSE e.scan_interval,
     departure_limit |-> DepartureLimit(e)]

\* __init__.async_setup_entry, lines 22-77: the client and the coordinator
\* are built from entry.data, the first refresh fetches, and the sensor
\* platform reads the departure limit (sensor.py line 180)
SetupEntry ==
    /\ entry # None
    /\ api = None
    /\ api' = SetupOf(entry)
    /\ UNCHANGED <<clientVars, parseVars, lineVars, cycle, boardVars, form,
                   options>>

\* the entry is removed: async_unload_entry, lines 79-84
RemoveEntry ==
    /\ entry # None
    /\ entry' = None
    /\ api' = None
    /\ options' = None
    /\ UNCHANGED <<clientVars, parseVars, lineVars, cycle, form, data, entities,
                   cached, lastRead, bpc, nextDeps>>

\* the data_schema of the options form, config_flow.py lines 169-190: a key
\* that is absent gets the stored option, else the entry's value
OptionsValue(input) ==
    LET current == IF options = None THEN entry ELSE options IN
    [departure_limit |-> IF input.departure_limit = Missing
                         THEN current.departure_limit ELSE input.departure_limit,
     scan_interval |-> IF input.scan_interval = Missing
                       THEN current.scan_interval ELSE input.scan_interval]

\* the options form is submitted (config_flow.py lines 158-167): the flow
\* manager passes the input through the form's data_schema; the result of
\* async_step_init is stored as entry.options, and when that changes them
\* update_listener (__init__.py lines 86-88) reloads the entry:
\* async_setup_entry builds the client and the coordinator anew, and the
\* sensor platform reads the departure limit anew, from entry.data
SubmitOptions(input) ==
    /\ entry # None
    /\ api # None
    /\ IF SchemaAccepts(input)
       THEN /\ options' = OptionsValue(input)
            /\ form' = [type |-> "create_entry", input |-> input]
            /\ api' = SetupOf(entry)
       ELSE /\ form' = [type |-> "form", input |-> input]
            /\ UNCHANGED <<options, api>>
    /\ UNCHANGED <<clientVars, parseVars, lineVars, cycle, boardVars>>

\* what is typed into the form: nothing, values at and next to the ends of
\* the ranges, values inside
UserInputs ==
    [stops : {<<"1">>, <<"1", ",", "2">>},
     departure_limit : {Missing, 0, 1, 2, 5, 10, 11},
     scan_interval : {Missing, 9, 10, 30, 300, 301}]

\* what is typed into the options form
OptionInputs ==
    [departure_limit : {Missing, 0, 1, 5, 10, 11},
     scan_interval : {Missing, 9, 10, 30, 300, 301}]

InitConfig ==
    /\ stops = <<"1">>
    /\ upstream = None
    /\ InitClient
    /\ InitParseIdle
    /\ InitLineIdle
    /\ InitRestIdle

NextConfig ==
    \/ \E input \in UserInputs : SubmitUser(input)
    \/ SetupEntry
    \/ RemoveEntry
    \/ \E input \in OptionInputs : SubmitOptions(input)

SpecConfig == InitConfig /\ [][NextConfig]_vars

UpstreamValid == ~MergeRaises(upstream) /\ Snapshot(upstream) # <<>>

\* no request of the cycle ran into a timeout, an error or the deadline
NoAttemptFailed == \A i \in 1..Len(outcomes) : outcomes[i] = "ok"

\* C18: a failed poll cycle does not make a later one fail: the cycle after a
\* failed one (also one whose fetch succeeded with zero monitors), during
\* which the upstream would answer promptly with a valid non-empty snapshot,
\* succeeds and publishes that snapshot's monitors.
C18_CycleIndependence ==
    (pc = "finished" /\ cycle.prevFailed /\ UpstreamValid /\ NoAttemptFailed) =>
        ~cycle.failed /\ data = Snapshot(upstream)

\* the first request of the cycle was not answered within the 10 units of
\* the per-attempt timeout
FirstAttemptTimedOut ==
    outcomes # <<>> /\ outcomes[1] \in {"timeout", "cancelled"}

\* C19: in a poll cycle, a first request that hits the 10-unit per-attempt
\* timeout is followed by the 1-unit backoff delay and a second request; the
\* cycle's deadline never cuts the fetch off before the retry policy has run.
C19_RetryInsideCycle ==
    pc = "finished" =>
        /\ ~cycle.cut
        /\ FirstAttemptTimedOut =>
              /\ delays # <<>>
              /\ delays[1] = 1
              /\ Len(sent) >= 2

(***************************************************************************)
(* Properties of the entities' cache across coordinator updates            *)
(***************************************************************************)
\* what entity e computes from snapshot ms with an empty cache
ComputedFrom(e, ms) == FilteredDepartures(NotCached, e, ms)

\* C20: once the coordinator has delivered a snapshot and the entities'
\* update handlers have run, what an entity caches and what a read of its
\* live value and attributes returns is computed from that snapshot: a filter
\* result cached from an earlier snapshot is never returned.
C20_CacheFollowsSnapshot ==
    bpc = "added" =>
        /\ \A i \in 1..Len(entities) :
              cached[i] # NotCached => cached[i] = ComputedFrom(entities[i], data)
        /\ lastRead # None =>
              LET deps == ComputedFrom(ReadBoard, data) IN
              /\ lastRead.filtered = deps
              /\ lastRead.native_value = NativeValue(deps, lastRead.at)
              /\ lastRead.departures = DeparturesAttribute(ReadBoard, deps)

\* C20 witness: an entity is read after an update whose snapshot gives it
\* other departures than the snapshot it was set up on
C20_Witness ==
    /\ bpc = "added"
    /\ lastRead # None
    /\ lastRead.filtered # <<>>
    /\ lastRead.filtered # ComputedFrom(ReadBoard, <<ReadBoard.monitor>>)
    /\ cached[lastRead.entity] = lastRead.filtered

C22_CacheWrittenOnSuccess ==
    [][cache' # cache =>
          /\ pc = "request"
          /\ pc' = "done"
          /\ outcomes' = Append(outcomes, "ok")
          /\ body'.shape # "nodata"
          /\ cache'[stops] = [data |-> result', timestamp |-> now']
      ]_vars

\* C22 witness: the retry after a timeout is answered and replaces the entry
\* the call began with
C22_Witness ==
    /\ pc = "done"
    /\ outcomes = <<"timeout", "ok">>
    /\ HadEntry
    /\ cache # cache0
    /\ cache[stops] = [data |-> result, timestamp |-> now]

\* C26: the cache of a client never holds more than one entry, and the key
\* of the entry is the client's configured stops string.
C26_CacheCapacity ==
    /\ DOMAIN cache \subseteq {stops}
    /\ Cardinality(DOMAIN cache) <= 1

\* C26 witness: a second successful fetch has written the cache, which
\* holds the one entry
C26_Witness ==
    /\ pc = "done"
    /\ outcomes = <<"ok">>
    /\ HadEntry
    /\ cache0[stops].timestamp < cache[stops].timestamp
    /\ DOMAIN cache = {stops}

\* C24: when the options flow has stored a departure limit and a poll
\* interval and the entry has been reloaded, the rebuilt coordinator polls at
\* the stored interval and the rebuilt boards limit their detail lists to the
\* stored departure limit.
C24_OptionsTakeEffect ==
    [][(options' # options /\ options' # None) =>
          /\ api'.update_interval = options'.scan_interval
          /\ api'.departure_limit = options'.departure_limit
      ]_vars

(***************************************************************************)
(* Unique identifiers (sensor.py) and the reconfiguration of the stops      *)
(* (config_flow.py).  Strings are sequences of characters                  *)
(***************************************************************************)
\* the decimal digits, in order
DigitChars == <<"0", "1", "2", "3", "4", "5", "6", "7", "8", "9">>

\* str(n) of an integer n >= 0, as an f-string formats it
RECURSIVE Digits(_)
Digits(n) ==
    IF n < 10 THEN <<DigitChars[n + 1]>>
    ELSE Digits(n \div 10) \o <<DigitChars[(n % 10) + 1]>>

\* sensor.py line 233: towards.replace(",", "").replace(" ", "_").lower()
SafeTowards(towards) ==
    LET upper == <<"A", "B", "C", "X", "Y", "Z">>
        lower == <<"a", "b", "c", "x", "y", "z">>
        Lower(c) == IF \E k \in 1..Len(upper) : upper[k] = c
                    THEN lower[CHOOSE k \in 1..Len(upper) : upper[k] = c]
                    ELSE c
        NotComma(c) == c # ","
        kept == SelectSeq(towards, NotComma)
    IN [i \in 1..Len(kept) |-> IF kept[i] = " " THEN "_" ELSE Lower(kept[i])]

\* sensor.py lines 36-39, with ENTITY_PREFIX "wl_" (const.py line 14)
UniqueId(e) ==
    <<"w", "l", "_", "l", "i", "n", "e", "_">>
        \o e.monitor.location.title \o <<"_">>
        \o Digits(e.monitor.location.rbl) \o <<"_">>
        \o Digits(e.line.line_id) \o <<"_">>
        \o <<e.direction>> \o <<"_">>
        \o SafeTowards(e.towards)

\* sub in s, for strings
Contains(s, sub) ==
    \E i \in 0..(Len(s) - Len(sub)) : SubSeq(s, i + 1, i + Len(sub)) = sub

\* int(piece.strip()), config_flow.py lines 85-86; Missing for ValueError
IntOf(piece) ==
    LET inked == {i \in 1..Len(piece) : piece[i] # " "}
        first == CHOOSE i \in inked : \A j \in inked : i <= j
        last == CHOOSE i \in inked : \A j \in inked : j <= i
        q == IF inked = {} THEN <<>> ELSE SubSeq(piece, first, last)
        DigitOf(c) == (CHOOSE k \in 1..10 : DigitChars[k] = c) - 1
        RECURSIVE ValueOf(_)
        ValueOf(r) == IF r = <<>> THEN 0
                      ELSE 10 * ValueOf(SubSeq(r, 1, Len(r) - 1))
                               + DigitOf(r[Len(r)])
    IN IF q = <<>> \/ \E i \in 1..Len(q) : q[i] \notin Range(DigitChars)
       THEN Missing
       ELSE ValueOf(q)

\* set(int(s.strip()) for s in stops.split(",")), lines 85-86
StopSet(s) == { IntOf(piece) : piece \in Range(Split(s)) }

\* the entity registry's entries of the config entry: one per unique id of
\* the entities the platform added; rbl is the stop of the entity's monitor
RegistryOf(es) ==
    { [unique_id |-> UniqueId(es[i]), rbl |-> es[i].monitor.location.rbl] :
        i \in 1..Len(es) }

\* config_flow.py lines 102-107: the entries of the config entry whose
\* unique id has f"_{stop}_" in it for a removed stop
EntitiesToRemove(registry, removed_stops) ==
    { r \in registry :
        \E stop \in removed_stops :
            Contains(r.unique_id, <<"_">> \o Digits(stop) \o <<"_">>) }

\* async_step_reconfigure, config_flow.py lines 72-148: the flow manager
\* passes the input through the form's data_schema; stops that do not parse
\* show the form again; else the registry entries found for the removed
\* stops are removed, the entry gets the data of the input and is reloaded
\* (line 124).  The reloaded entry's first refresh returns the monitors the
\* upstream has for the stops now configured, and the sensor platform adds
\* their entities
Reconfigure(input) ==
    /\ entry # None
    /\ bpc = "added"
    /\ LET old_stops == StopSet(entry.stops)
           new_stops == StopSet(input.stops)
           Configured(m) == m.location.rbl \in new_stops
       IN IF ~SchemaAccepts(input)
          THEN /\ form' = [type |-> "form", input |-> input]
               /\ UNCHANGED <<entry, api, data, entities, cached>>
          ELSE IF Missing \in old_stops \cup new_stops
          THEN /\ form' = [type |-> "form", input |-> input,
                           errors |-> "invalid_stops"]
               /\ UNCHANGED <<entry, api, data, entities, cached>>
          ELSE /\ form' = [type |-> "abort", reason |-> "reconfigure_successful",
                           input |-> input,
                           removed |-> EntitiesToRemove(RegistryOf(entities),
                                                        old_stops \ new_stops)]
               /\ entry' = EntryOf(SchemaValue(input))
               /\ api' = SetupOf(entry')
               /\ data' = SelectSeq(data, Configured)
               /\ entities' = CreateEntities(data', DepartureLimit(entry'))
               /\ cached' = [i \in 1..Len(entities') |-> NotCached]
    /\ lastRead' = None
    /\ UNCHANGED <<clientVars, parseVars, lineVars, cycle, options, bpc, nextDeps>>

\* the largest number of monitor blocks in a body of this specification
MaxIdentBlocks == 2

\* the snapshots of up to MaxIdentBlocks raw blocks of one line record each:
\* the lines 7 and 8 at stop 1, line 8 at stop 7.  The departure lists of a
\* line: one destination; two that differ in letter case, in a comma, in
\* space against underscore
IdentSnapshots ==
    LET To(towards) == TramDeparture(120, Missing, "H", towards)
        lists == { <<To(<<"X", "Y">>)>>,
                   <<To(<<"X", "Y">>), To(<<"x", "y">>)>>,
                   <<To(<<"X", "Y">>), To(<<"X", ",", "Y">>)>>,
                   <<To(<<"X", " ", "Y">>), To(<<"x", "_", "y">>)>> }
        blocks == { RawMonitor(RawLocation(at[1], <<"A">>, TRUE),
                               <<TramLine(at[2], deps)>>, "A") :
                      at \in {<<1, 7>>, <<1, 8>>, <<7, 8>>}, deps \in lists }
    IN { Snapshot(RawResponse("full", bs)) :
           bs \in SeqsUpTo(blocks, MaxIdentBlocks) \ {<<>>} }

\* what is typed into the reconfigure form: one of the two stops, both,
\* both with a space, a stop that is no number
ReconfigureInputs ==
    [stops : { <<"1">>, <<"7">>, <<"1", ",", "7">>, <<"1", ",", " ", "7">>,
               <<"1", ",", "x">> },
     departure_limit : {Missing, 11},
     scan_interval : {Missing}]

\* an entry for the stops 1 and 7 has been set up and its first refresh has
\* returned; the sensor platform is about to add the entities
InitIdent ==
    /\ stops = <<"1", ",", "7">>
    /\ upstream = None
    /\ InitClient
    /\ InitParseIdle
    /\ InitLineIdle
    /\ cycle = NoCycle
    /\ form = None
    /\ options = None
    /\ entry = EntryOf([stops |-> stops, departure_limit |-> Missing,
                        scan_interval |-> Missing])
    /\ api = SetupOf(entry)
    /\ data \in IdentSnapshots
    /\ entities = <<>>
    /\ cached = <<>>
    /\ lastRead = None
    /\ bpc = "setup"
    /\ nextDeps = None

NextIdent ==
    \/ SetupEntities
    \/ \E input \in ReconfigureInputs : Reconfigure(input)

SpecIdent == InitIdent /\ [][NextIdent]_vars

\* C23: two entities set up for different (line id, stop id, direction,
\* destination) tuples have different unique ids, also when the destinations
\* differ only in commas, spaces or letter case.
C23_IdentifierInjectivity ==
    bpc = "added" =>
        \A i, j \in 1..Len(entities) :
            KeyOf(entities[i]) # KeyOf(entities[j])
                => UniqueId(entities[i]) # UniqueId(entities[j])

\* C25: a reconfiguration of the stops removes from the registry exactly the
\* entries of the config entry whose entity belongs to a stop that was
\* configured and no longer is; no entry of a retained stop is removed.
C25_ReconfigureRemoval ==
    [][(form' # None /\ form' # form /\ form'.type = "abort") =>
          form'.removed =
              { r \in RegistryOf(entities) :
                  r.rbl \in StopSet(entry.stops) \ StopSet(entry'.stops) }
      ]_vars

=============================================================================
